---------------------------- MODULE Spec2Model ----------------------------
(***************************************************************************)
(* A model of the sleep-data synchronisation pipeline of sleepwithdash:    *)
(* update_garmin_sleep.py (step0 .. step4 and their helpers) as it is      *)
(* driven by the callback chain of app.py.                                 *)
(*                                                                         *)
(* Representation.                                                         *)
(*   - A calendar date is its day number counted from 1970-01-01; the      *)
(*     'YYYY-MM-DD' strings of the source are triples <<y, m, d>> and the  *)
(*     parsing/formatting between the two is computed (Date, YMD).         *)
(*   - An instant is its number of seconds since the epoch (the provider's *)
(*     millisecond stamps are carried in seconds: TLC integers are 32 bit).*)
(*   - pd.NaT / np.NAN / None are the one value NaT.                       *)
(*   - A time of day ("ToD", decimal hours in the source) is carried in    *)
(*     minutes: 60 * (hour + minute/60) = 60*hour + minute, so the source's*)
(*     threshold 12 is 720 and its shift 24 is 1440.                       *)
(*   - A data frame is the sequence of its rows; a row is a record of the  *)
(*     columns a decision of the pipeline reads.  The columns Awake_Dur,   *)
(*     Light_Dur, Deep_Dur, Nap_Dur and Window_Conf travel with Total_Dur  *)
(*     and are read by no branch, and are left out.                        *)
(***************************************************************************)
EXTENDS Integers, Sequences, FiniteSets, TLC

\* ------------------------------------------------------------------ bounds

\* number of days in the configured range [start_date, end_date]
NumDays == 3
\* number of pipeline runs in one behaviour
MaxRuns == 2
\* most rows of the legacy (Microsoft) activity table
MaxLegacy == 2
\* number of days in a range that takes more than one request period
LongDays == 33

\* ------------------------------------------------------- program constants

\* pd.NaT, np.NAN and None
NaT == -100000

\* max_period_delta = datetime.timedelta(days=31)
max_period_delta == 31

\* US/Eastern standard time, seconds east of UTC (local_tz)
local_tz == -18000

\* the threshold and the shift of "make PM times negative", in minutes
Noon == 720
FullDay == 1440

\* pd.Timedelta(4, unit="h"), in seconds
FourHours == 14400

\* ------------------------------------------------------------- sequences

Range(s) == {s[i] : i \in DOMAIN s}

Min(S) == CHOOSE x \in S : \A y \in S : x <= y

Max(S) == CHOOSE x \in S : \A y \in S : x >= y

RECURSIVE Flatten(_)
\* itertools.chain.from_iterable
Flatten(ss) ==
    IF Len(ss) = 0 THEN <<>> ELSE Head(ss) \o Flatten(Tail(ss))

\* the position of every row in the frame sorted ascending by key, key[i] being
\* the key of row i: rows of equal key keep their order.  The concatenation
\* makes the positions a tuple, computed once
SortedPlace(key) ==
    <<>> \o [i \in DOMAIN key |->
                Cardinality({j \in DOMAIN key :
                                \/ key[j] < key[i]
                                \/ (key[j] = key[i] /\ j <= i)})]

\* the rows of s, each at its place
Placed(place, s) == [p \in DOMAIN s |-> s[CHOOSE i \in DOMAIN s : place[i] = p]]

\* DataFrame.sort_values
SortBy(key, s) == Placed(SortedPlace(key), s)

RECURSIVE SetToSeq(_)
\* the elements of a finite set of integers, ascending (np.setdiff1d's order)
SetToSeq(S) ==
    IF S = {} THEN <<>> ELSE <<Min(S)>> \o SetToSeq(S \ {Min(S)})

\* --------------------------------------------------------------- calendar

\* the day of the 400-year era for a year of the era and a day of the
\* (March-based) year
DayOfEra(yoe, doy) == yoe * 365 + yoe \div 4 - yoe \div 100 + doy

\* the day number of day d of the March-based month mp of the March-based year yy
DaysFromCivil(yy, mp, d) ==
    (yy \div 400) * 146097 + DayOfEra(yy % 400, (153 * mp + 2) \div 5 + d - 1) - 719468

\* datetime.date(y, m, d) as a day number (days from 1970-01-01)
Date(y, m, d) ==
    DaysFromCivil(IF m <= 2 THEN y - 1 ELSE y, IF m > 2 THEN m - 3 ELSE m + 9, d)

\* <<year, month, day>> from the March-based year, day of year and month
CivilFromMonth(yy, doy, mp) ==
    <<yy + (IF mp < 10 THEN 0 ELSE 1),
      IF mp < 10 THEN mp + 3 ELSE mp - 9,
      doy - (153 * mp + 2) \div 5 + 1>>

CivilFromDayOfYear(yy, doy) == CivilFromMonth(yy, doy, (5 * doy + 2) \div 153)

CivilFromYearOfEra(era, doe, yoe) ==
    CivilFromDayOfYear(yoe + era * 400, doe - (365 * yoe + yoe \div 4 - yoe \div 100))

CivilFromDayOfEra(era, doe) ==
    CivilFromYearOfEra(era, doe,
        (doe - doe \div 1460 + doe \div 36524 - doe \div 146096) \div 365)

\* the <<year, month, day>> of a day number (date.isoformat, strftime('%Y-%m-%d'))
YMD(n) == CivilFromDayOfEra((n + 719468) \div 146097, (n + 719468) % 146097)

Year(n) == YMD(n)[1]

Month(n) == YMD(n)[2]

DayOfMonth(n) == YMD(n)[3]

\* date.weekday(): Monday = 0 .. Sunday = 6 (1970-01-01 was a Thursday)
Weekday(n) == (n + 3) % 7

\* day_map
day_map(w) ==
    CASE w = 0 -> "Monday"
      [] w = 1 -> "Tuesday"
      [] w = 2 -> "Wednesday"
      [] w = 3 -> "Thursday"
      [] w = 4 -> "Friday"
      [] w = 5 -> "Saturday"
      [] w = 6 -> "Sunday"

\* this function returns a list of all dates in [date1, date2]
daterange(date1, date2) ==
    [i \in 1..(IF date2 >= date1 THEN date2 - date1 + 1 ELSE 1) |-> date1 + i - 1]

\* an instant's hour and minute on the local (US/Eastern) clock
LocalHour(t) == ((t + local_tz) % 86400) \div 3600

LocalMinute(t) == ((t + local_tz) % 3600) \div 60

\* the instant of a naive local wall-clock time (tz_localize)
Localize(day, hour, minute) == day * 86400 + hour * 3600 + minute * 60 - local_tz

\* ------------------------------------------------------------- variables

VARIABLES
    start_date,        \* input variable start_date, a 'YYYY-MM-DD' triple
    end_date,          \* input variable end_date (yesterday), a 'YYYY-MM-DD' triple
    provider,          \* the provider's nightly records, by calendar (wake) date
    ms_df,             \* the legacy Activity_Summary tables, concatenated
    federal_holidays,  \* the dates USFederalHolidayCalendar yields
    disk,              \* the files under data/: one field per file
    nights_df,         \* app.py global: the archive step0 loaded
    new_req_dates_ls,  \* app.py global: the dates step0 found missing
    request,           \* app.py global: the session handle of step1
    data_json,         \* app.py global: the records step2 downloaded
    complete_dates_ls, \* app.py global: the dates step3 spans
    get_dates_ls,      \* step2: the dates still to request
    data,              \* step2: list of jsons, one per time period
    periods,           \* step2: the <<period_start, period_end, status>> requested so far
    sun_requests,      \* step4: the dates requested from the almanac so far
    pc,                \* the stage the run is at
    run,               \* the number of the run
    written,           \* the files written so far in this run
    before,            \* the files as they were when this run started
    first              \* the files as the first run left them, once it completed

vars == <<start_date, end_date, provider, ms_df, federal_holidays, disk, nights_df,
          new_req_dates_ls, request, data_json, complete_dates_ls, get_dates_ls,
          data, periods, sun_requests, pc, run, written, before, first>>

env == <<start_date, end_date, provider, ms_df, federal_holidays>>

\* ------------------------------------------------------------- provider

\* a raw nightly record of the provider's JSON array
RawNight(c, bed, wake) ==
    [calendarDate |-> YMD(c),
     sleepStartTimestampGMT |-> bed,
     sleepEndTimestampGMT |-> wake,
     sleepTimeSeconds |-> IF bed = NaT \/ wake = NaT THEN NaT ELSE wake - bed]

\* what the provider holds for calendar date c: nothing, a record without values,
\* a night that began the evening before, a night that began after midnight and
\* ended in the afternoon, or the same date reported twice
ProviderEntry(kind, c) ==
    CASE kind = "none"  -> <<>>
      [] kind = "null"  -> <<RawNight(c, NaT, NaT)>>
      [] kind = "early" -> <<RawNight(c, Localize(c - 1, 22, 30), Localize(c, 6, 15))>>
      [] kind = "late"  -> <<RawNight(c, Localize(c, 1, 20), Localize(c, 13, 40))>>
      [] kind = "twice" -> <<RawNight(c, Localize(c - 1, 22, 30), Localize(c, 6, 15)),
                             RawNight(c, NaT, NaT)>>

\* GET dailySleepsByDate?startDate&endDate: the records whose calendarDate lies in
\* [startDate, endDate]
ProviderBody(startDate, endDate) ==
    Flatten([i \in 1..(endDate - startDate + 1) |->
                IF (startDate + i - 1) \in DOMAIN provider
                THEN provider[startDate + i - 1] ELSE <<>>])

\* the text of a JSON array as bytes: '[' ... ']' with '{' '}' per record
JsonBytes(body) ==
    <<[byte |-> 91]>>
    \o Flatten([i \in 1..Len(body) |-> <<[byte |-> 123], [byte |-> 125]>>])
    \o <<[byte |-> 93]>>

\* requests.get(sleep_url_json_req, ...): status and encoding are the provider's
Response(startDate, endDate, status_code, encoding) ==
    [status_code |-> status_code,
     encoding |-> encoding,
     body |-> IF status_code = 200 THEN ProviderBody(startDate, endDate) ELSE <<>>]

downloadRaisesNever(response) == FALSE

\* download raises when the status is not 200
downloadRaises(response) == response.status_code # 200

\* download_to_json: json.loads of an ascii payload, else brotli.decompress of it,
\* which returns the decompressed bytes and does not parse them
download_to_json(response) ==
    IF response.encoding = "ascii" THEN response.body ELSE JsonBytes(response.body)

IsObject(d) == "calendarDate" \in DOMAIN d

\* ------------------------------------------------------------- converter

\* d['sleepStartTimestampGMT'] on an element that is no dict raises TypeError
converterRaises(json) == \E i \in DOMAIN json : ~IsObject(json[i])

sleep_timestamp(val) == IF val = NaT THEN NaT ELSE val

sleep_timedelta(val) == IF val = NaT THEN NaT ELSE val

previous_day(d) == Date(d.calendarDate[1], d.calendarDate[2], d.calendarDate[3]) - 1

\* one row of nights per element of data
converter(json) ==
    [i \in DOMAIN json |->
        [Prev_Day  |-> previous_day(json[i]),
         Bed_Time  |-> sleep_timestamp(json[i].sleepStartTimestampGMT),
         Wake_Time |-> sleep_timestamp(json[i].sleepEndTimestampGMT),
         Total_Dur |-> sleep_timedelta(json[i].sleepTimeSeconds)]]

PrevDays(df) == {df[i].Prev_Day : i \in DOMAIN df}

\* ------------------------------------------------------------- step0

req_dates_ls == daterange(Date(start_date[1], start_date[2], start_date[3]),
                          Date(end_date[1], end_date[2], end_date[3]))

\* the whole range, whatever the archive holds
step0_new_req_dates_lsAll(archive) == req_dates_ls

\* the requested dates not yet obtained: np.setdiff1d, or the whole range when
\* the archive is absent or empty
step0_new_req_dates_ls(archive) ==
    IF Len(archive) > 0
    THEN SetToSeq(Range(req_dates_ls) \ PrevDays(archive))
    ELSE req_dates_ls

\* ------------------------------------------------------------- step2

\* a request for the whole of the missing dates, whatever their span
period_endMax(dates) == Max(Range(dates))

period_start(dates) == Min(Range(dates))

period_end(dates) ==
    IF Max(Range(dates)) - period_start(dates) > max_period_delta - 1
    THEN period_start(dates) + max_period_delta
    ELSE Max(Range(dates))

\* a trim that keeps the date the period ended at
trim_datesFromEnd(dates) ==
    LET pe == period_end(dates) IN SelectSeq(dates, LAMBDA d : d >= pe)

\* trim dates list
trim_dates(dates) ==
    LET pe == period_end(dates) IN SelectSeq(dates, LAMBDA d : d > pe)

\* ------------------------------------------------------------- step3: merge

Prev_Day(row) == row.Prev_Day

\* the rows left in the order they were appended in
sort_values_Prev_DaySkipped(df) == df

\* sort_values("Prev_Day")
sort_values_Prev_Day(df) == SortBy([i \in DOMAIN df |-> Prev_Day(df[i])], df)

\* new_missing_row: a night with nothing but its date
new_missing_row(d) ==
    [Prev_Day |-> d, Bed_Time |-> NaT, Wake_Time |-> NaT, Total_Dur |-> NaT]

\* np.setdiff1d(new_req_dates_ls, new_nights_df["Prev_Day"].dt.date)
new_missing_dates_ls(req, new_nights_df) ==
    SetToSeq(Range(req) \ PrevDays(new_nights_df))

fill_missingSkipped(req, new_nights_df) == new_nights_df

\* fill df with missing dates so that subsequent updates won't keep requesting
\* data which Garmin doesn't have
fill_missing(req, new_nights_df) ==
    LET missing == new_missing_dates_ls(req, new_nights_df)
    IN  new_nights_df \o [i \in DOMAIN missing |-> new_missing_row(missing[i])]

\* drop any nights which were already in the archived pickle file, then merge
\* with the archived data and sort by Prev_Day
merge(archive, new_nights_df) ==
    IF Len(archive) > 0
    THEN sort_values_Prev_Day(
             archive \o SelectSeq(new_nights_df,
                                  LAMBDA r : r.Prev_Day \notin PrevDays(archive)))
    ELSE sort_values_Prev_Day(new_nights_df)

RECURSIVE unknown_nights_ls(_, _)
\* the dates of the rows the while loop walks over, from the last row backward,
\* as long as Total_Dur is null
unknown_nights_ls(df, i) ==
    IF i <= Len(df) /\ df[Len(df) - i + 1].Total_Dur = NaT
    THEN <<df[Len(df) - i + 1].Prev_Day>> \o unknown_nights_ls(df, i + 1)
    ELSE <<>>

\* nights_df.Total_Dur.iloc[-i] is evaluated before len(nights_df) >= i is used:
\* when every row is null (or there is no row) the index runs off the frame
trimRaises(df) == \A i \in DOMAIN df : df[i].Total_Dur = NaT

\* nights_df[~nights_df["Prev_Day"].isin(unknown_nights_ls)]
trim(df) ==
    LET unknown == Range(unknown_nights_ls(df, 1))
    IN  SelectSeq(df, LAMBDA r : r.Prev_Day \notin unknown)

\* the archive step3 persists (lines 312-357)
merged_nights_df(archive, json, req) ==
    trim(merge(archive, fill_missing(req, converter(json))))

step3MergeRaises(archive, json, req) ==
    \/ converterRaises(json)
    \/ trimRaises(merge(archive, fill_missing(req, converter(json))))

\* ------------------------------------------------------------- step3: times of day

\* dt.hour + dt.minute/60 on the local clock, in minutes; null stays null
ToD(t) == IF t = NaT THEN NaT ELSE 60 * LocalHour(t) + LocalMinute(t)

make_negativeNever(tod) == tod

\* x -= 24*(x > 12): make PM times negative; a null compares False and stays
make_negative(tod) ==
    IF tod = NaT THEN NaT ELSE IF tod > Noon THEN tod - FullDay ELSE tod

Bed_ToD(row) == make_negative(ToD(row.Bed_Time))

Wake_ToD(row) == ToD(row.Wake_Time)

\* garmin_df: the archive with the two time-of-day columns
garmin_df(archive) ==
    [i \in DOMAIN archive |->
        [Prev_Day  |-> archive[i].Prev_Day,
         Bed_Time  |-> archive[i].Bed_Time,
         Wake_Time |-> archive[i].Wake_Time,
         Total_Dur |-> archive[i].Total_Dur,
         Bed_ToD   |-> Bed_ToD(archive[i]),
         Wake_ToD  |-> Wake_ToD(archive[i])]]

\* ------------------------------------------------------------- step3: legacy data

\* a naive local timestamp (seconds of the wall clock) made an instant
tz_localize(naive) == IF naive = NaT THEN NaT ELSE naive - local_tz

hour(t) == IF t = NaT THEN NaT ELSE LocalHour(t)

add_dur(a, b) == IF a = NaT \/ b = NaT THEN NaT ELSE a + b

\* query("Event_Type == 'Sleep'")
sleep_rows(legacy) == SelectSeq(legacy, LAMBDA r : r.Event_Type = "Sleep")

\* fell asleep after midnght, adjust Prev_Day back 1 day: for i_row in
\* range(len(ms2_df)-1), so the last row is never looked at
adjusted_Prev_Day(legacy, i) ==
    LET bed == tz_localize(legacy[i].Start_Time)
    IN  IF i <= Len(legacy) - 1 /\ hour(bed) # NaT /\ hour(bed) < 12
        THEN legacy[i].Date - 1
        ELSE legacy[i].Date

\* ms2_df: the legacy sleep rows in the archive's schema
ms2_df(legacy) ==
    LET rows == sleep_rows(legacy)
    IN  [i \in DOMAIN rows |->
            [Prev_Day  |-> adjusted_Prev_Day(rows, i),
             Bed_Time  |-> tz_localize(rows[i].Start_Time),
             Wake_Time |-> tz_localize(rows[i].Wake_Up_Time),
             Total_Dur |-> add_dur(add_dur(rows[i].Seconds_Awake,
                                           rows[i].Seconds_Asleep_Light),
                                   rows[i].Seconds_Asleep_Restful),
             Bed_ToD   |-> make_negative(ToD(tz_localize(rows[i].Start_Time))),
             Wake_ToD  |-> ToD(tz_localize(rows[i].Wake_Up_Time))]]

brief_sleep_bool(row) == row.Total_Dur # NaT /\ row.Total_Dur < FourHours

\* (Bed_ToD > -3) | (Bed_ToD < 7); a null compares False on both sides
daytime_asleep_bool(row) ==
    row.Bed_ToD # NaT /\ (row.Bed_ToD > -180 \/ row.Bed_ToD < 420)

unknown_dur_bool(row) == row.Total_Dur = NaT

nap_bool(row) == brief_sleep_bool(row) /\ daytime_asleep_bool(row)

\* ms3_df = ms2_df.loc[~nap_bool & ~unknown_dur_bool, :]
ms3_df(legacy) ==
    SelectSeq(ms2_df(legacy), LAMBDA r : ~nap_bool(r) /\ ~unknown_dur_bool(r))

\* ------------------------------------------------------------- step3: features

\* a day of the range that neither source has: every column null but the date
missing_row(d) ==
    [Prev_Day |-> d, Bed_Time |-> NaT, Wake_Time |-> NaT, Total_Dur |-> NaT,
     Bed_ToD |-> NaT, Wake_ToD |-> NaT]

\* combine garmin and microsoft data
combined_df(archive, legacy) == garmin_df(archive) \o ms3_df(legacy)

\* daterange(min(all_df["Prev_Day"]), max(all_df["Prev_Day"]))
complete_dates(both) == daterange(Min(PrevDays(both)), Max(PrevDays(both)))

step3_complete_dates_ls(archive, legacy) == complete_dates(combined_df(archive, legacy))

\* np.setdiff1d(complete_dates_ls, all_df["Prev_Day"].dt.date)
missing_dates_ls(both) == SetToSeq(Range(complete_dates(both)) \ PrevDays(both))

\* one all_df.loc[len(all_df)] = [...] per missing date
append_missing(both, missing) ==
    both \o [i \in DOMAIN missing |-> missing_row(missing[i])]

\* fill in missing days between first and last days in combined dataset
fill_gaps(both) == append_missing(both, missing_dates_ls(both))

\* all_df["Sleep_Session_ID"] = list(range(len(all_df)))
with_Sleep_Session_ID(sorted) ==
    [i \in DOMAIN sorted |->
        [Sleep_Session_ID |-> i - 1,
         Prev_Day  |-> sorted[i].Prev_Day,
         Bed_Time  |-> sorted[i].Bed_Time,
         Wake_Time |-> sorted[i].Wake_Time,
         Total_Dur |-> sorted[i].Total_Dur,
         Bed_ToD   |-> sorted[i].Bed_ToD,
         Wake_ToD  |-> sorted[i].Wake_ToD]]

\* all_df: combined, gaps filled, sorted by Prev_Day, rows numbered
all_df(archive, legacy) ==
    with_Sleep_Session_ID(sort_values_Prev_Day(fill_gaps(combined_df(archive, legacy))))

\* add day after thanksgiving
bf_holidays(std) == {h + 1 : h \in {g \in std : Month(g) = 11 /\ DayOfMonth(g) > 20}}

\* remove presidents day (feb), columbus day (oct), veterans day (nov)
kept_holidays(hs) ==
    {h \in hs : /\ Month(h) # 2
                /\ Month(h) # 10
                /\ ~(Month(h) = 11 /\ DayOfMonth(h) < 20)}

\* calendar().holidays(start, end)
standard_holidays(first_day, last_day) ==
    {h \in federal_holidays : first_day <= h /\ h <= last_day}

with_bf_holidays(std) == kept_holidays(std \cup bf_holidays(std))

\* holidays, as Is_Holiday and vacay read it
holidays(first_day, last_day) == with_bf_holidays(standard_holidays(first_day, last_day))

is_weekend_boolSatSun(d) == day_map(Weekday(d)) \in {"Saturday", "Sunday"}

\* is_weekend_bool = all_descr_df["Day"].isin(["Friday", "Saturday"])
is_weekend_bool(d) == day_map(Weekday(d)) \in {"Friday", "Saturday"}

\* Is_Holiday: in the holiday list, and reset on the days of is_weekend_bool
Is_Holiday(d, holiday_ls) == d \in holiday_ls /\ ~is_weekend_bool(d)

\* adding current layoff
layoff_series == Date(2019, 10, 28) .. Date(end_date[1], end_date[2], end_date[3])

\* christmas eve & all days after christmas
christmas_vacay(christmas_holidays) ==
    {h - 1 : h \in christmas_holidays}
    \cup {h + n : h \in christmas_holidays, n \in 1..6}

vacay(holiday_ls) ==
    christmas_vacay({h \in holiday_ls : Month(h) = 12}) \cup layoff_series

\* if not in vacay list, assume the day was a work day; never on is_weekend_bool
Is_Workday(d, holiday_ls, vacay_ls) ==
    IF is_weekend_bool(d) THEN FALSE
    ELSE ~(Is_Holiday(d, holiday_ls) \/ d \in vacay_ls)

\* the feature columns: day of week, year, is_holiday, is_workday
with_features(all, holiday_ls, vacay_ls) ==
    [i \in DOMAIN all |->
        [Sleep_Session_ID |-> all[i].Sleep_Session_ID,
         Prev_Day   |-> all[i].Prev_Day,
         Total_Dur  |-> all[i].Total_Dur,
         Year       |-> Year(all[i].Prev_Day),
         Day        |-> day_map(Weekday(all[i].Prev_Day)),
         Is_Holiday |-> Is_Holiday(all[i].Prev_Day, holiday_ls),
         Is_Workday |-> Is_Workday(all[i].Prev_Day, holiday_ls, vacay_ls)]]

with_holidays(all, holiday_ls) == with_features(all, holiday_ls, vacay(holiday_ls))

descr_of(all) == with_holidays(all, holidays(Min(PrevDays(all)), Max(PrevDays(all))))

\* all_descr_df as step3 writes it
all_descr_df(archive, legacy) == descr_of(all_df(archive, legacy))

\* ------------------------------------------------------------- step3: events

\* pd.melt(all_df, id_vars=["Sleep_Session_ID", "Prev_Day"],
\* value_vars=["Bed_Time", "Wake_Time"]) and the two replace calls: the bed rows
\* of every session, then the wake rows
all_event_dt_df(all) ==
    [i \in DOMAIN all |->
        [Sleep_Session_ID |-> all[i].Sleep_Session_ID, Prev_Day |-> all[i].Prev_Day,
         Event |-> "Fell Asleep", value |-> all[i].Bed_Time]]
    \o
    [i \in DOMAIN all |->
        [Sleep_Session_ID |-> all[i].Sleep_Session_ID, Prev_Day |-> all[i].Prev_Day,
         Event |-> "Woke Up", value |-> all[i].Wake_Time]]

\* the same with value_vars=["Bed_ToD", "Wake_ToD"]
all_event_tod_df(all) ==
    [i \in DOMAIN all |->
        [Sleep_Session_ID |-> all[i].Sleep_Session_ID, Prev_Day |-> all[i].Prev_Day,
         Event |-> "Fell Asleep", value |-> all[i].Bed_ToD]]
    \o
    [i \in DOMAIN all |->
        [Sleep_Session_ID |-> all[i].Sleep_Session_ID, Prev_Day |-> all[i].Prev_Day,
         Event |-> "Woke Up", value |-> all[i].Wake_ToD]]

merge_keysNoID(l, r) == l.Prev_Day = r.Prev_Day /\ l.Event = r.Event

\* pd.merge joins on the columns the two frames share
merge_keys(l, r) ==
    /\ l.Sleep_Session_ID = r.Sleep_Session_ID
    /\ l.Prev_Day = r.Prev_Day
    /\ l.Event = r.Event

\* the rows of right that match a row of left, joined to it
merge_row(l, hits) ==
    [j \in DOMAIN hits |->
        [Sleep_Session_ID |-> l.Sleep_Session_ID,
         Prev_Day |-> l.Prev_Day,
         Event    |-> l.Event,
         DateTime |-> l.value,
         ToD      |-> hits[j].value]]

\* pd.merge(all_event_dt_df, all_event_tod_df): one row per matching pair
pd_merge(left, right) ==
    Flatten([i \in DOMAIN left |->
                merge_row(left[i], SelectSeq(right, LAMBDA r : merge_keys(left[i], r)))])

\* the sort key of an event row: "Fell Asleep" sorts before "Woke Up"
event_key(row) == 2 * row.Sleep_Session_ID + (IF row.Event = "Fell Asleep" THEN 0 ELSE 1)

\* sort_values(["Sleep_Session_ID", "Event"])
sort_values_event(df) == SortBy([i \in DOMAIN df |-> event_key(df[i])], df)

events_of(all) == sort_values_event(pd_merge(all_event_dt_df(all), all_event_tod_df(all)))

\* reshape event df so each event is a separate row
all_event_df(archive, legacy) == events_of(all_df(archive, legacy))

\* ------------------------------------------------------------- step4

\* the almanac's answer for a date: two 12-hour clock strings in UTC,
\* <<hour, minute, second, "AM" or "PM">>
Almanac(w_date) ==
    [sunrise |-> <<12, 10 + (w_date % 3) * 7, 30, "PM">>,
     sunset  |-> IF w_date % 2 = 0 THEN <<11, 35, 10, "PM">> ELSE <<12, 5, 40, "AM">>]

\* datetime.strptime(text, "%I:%M:%S %p") with the date replaced by w_date, taken
\* as UTC: the instant
sun_instant(w_date, clock) ==
    w_date * 86400
    + ((clock[1] % 12) + (IF clock[4] = "PM" THEN 12 ELSE 0)) * 3600
    + clock[2] * 60 + clock[3]

\* calculate time of day in hours from (-12, 12]
sun_tod(t) == make_negative(ToD(t))

sun_row(w_date) ==
    LET sunrise == sun_instant(w_date, Almanac(w_date).sunrise)
        sunset  == sun_instant(w_date, Almanac(w_date).sunset)
    IN  [Date |-> w_date,
         Sunrise |-> sunrise, Sunrise_ToD |-> sun_tod(sunrise),
         Sunset |-> sunset, Sunset_ToD |-> sun_tod(sunset)]

new_sun_dates_lsAll(sun_df, dates) == dates

\* build new list of dates which omits dates already obtained
new_sun_dates_ls(sun_df, dates) ==
    IF Len(sun_df) > 0
    THEN SelectSeq(dates, LAMBDA n : n \notin {sun_df[i].Date : i \in DOMAIN sun_df})
    ELSE dates

\* the dates step4 requests when the almanac answers the first `answered` of the
\* new dates with 200: all of them, or those up to the first refused one
step4_requested(new, answered) ==
    IF answered = Len(new) THEN new ELSE SubSeq(new, 1, answered + 1)

\* add row to df: one row per answered request
sun_rows(new, answered) == [i \in 1..answered |-> sun_row(new[i])]

step4_to_picklePartial(sun_df, new, answered) == sun_df \o sun_rows(new, answered)

\* the solar file after step4: sun_df.to_pickle comes after the loop, and a
\* refused request raises out of the loop
step4_to_pickle(sun_df, new, answered) ==
    IF answered = Len(new) THEN sun_df \o sun_rows(new, answered) ELSE sun_df

\* ------------------------------------------------------------- the run

\* do_sync_step0 -> step0: load the archive and list the missing dates
Step0 ==
    /\ pc = "step0"
    /\ nights_df' = disk.garmin_sleep_df
    /\ new_req_dates_ls' = step0_new_req_dates_ls(disk.garmin_sleep_df)
    /\ pc' = "step1"
    /\ UNCHANGED <<env, disk, request, data_json, complete_dates_ls, get_dates_ls,
                   data, periods, sun_requests, run, written, before, first>>

\* do_sync_step1 -> step1: the browser login.  A wait that times out raises; a
\* probe that is not answered 200 is printed and the handle is returned all the same
Step1 ==
    /\ pc = "step1"
    /\ \E outcome \in {"ok", "refused", "timeout"} :
          /\ request' = CASE outcome = "ok" -> [status_code |-> 200, headers |-> TRUE]
                          [] outcome = "refused" -> [status_code |-> 403, headers |-> FALSE]
                          [] outcome = "timeout" -> request
          /\ pc' = IF outcome = "timeout" THEN "failed" ELSE "step2"
    /\ UNCHANGED <<env, disk, nights_df, new_req_dates_ls, data_json,
                   complete_dates_ls, get_dates_ls, data, periods, sun_requests, run,
                   written, before, first>>

\* do_sync_step2 -> step2, up to its loop: the headers and the session id are read
\* from the handle (a KeyError when they are not there)
Step2Start ==
    /\ pc = "step2"
    /\ IF request.headers
       THEN /\ get_dates_ls' = new_req_dates_ls
            /\ data' = <<>>
            /\ pc' = "step2_loop"
       ELSE /\ pc' = "failed"
            /\ UNCHANGED <<get_dates_ls, data>>
    /\ UNCHANGED <<env, disk, nights_df, new_req_dates_ls, request, data_json,
                   complete_dates_ls, periods, sun_requests, run, written, before,
                   first>>

\* one turn of step2's while loop: request [period_start, period_end]; a status
\* other than 200 raises out of step2
Step2Request ==
    /\ pc = "step2_loop"
    /\ Len(get_dates_ls) > 0
    /\ \E status_code \in {200, 500}, encoding \in {"ascii", "brotli"} :
          LET response == Response(period_start(get_dates_ls), period_end(get_dates_ls),
                                   status_code, encoding)
          IN  /\ periods' = Append(periods, <<period_start(get_dates_ls),
                                              period_end(get_dates_ls), status_code>>)
              /\ IF downloadRaises(response)
                 THEN /\ pc' = "failed"
                      /\ UNCHANGED <<data, get_dates_ls>>
                 ELSE /\ data' = Append(data, download_to_json(response))
                      /\ get_dates_ls' = trim_dates(get_dates_ls)
                      /\ pc' = "step2_loop"
    /\ UNCHANGED <<env, disk, nights_df, new_req_dates_ls, request, data_json,
                   complete_dates_ls, sun_requests, run, written, before, first>>

\* the end of step2: combine list of jsons into one large json, save raw Garmin
\* json to project folder, return it
Step2Finish ==
    /\ pc = "step2_loop"
    /\ Len(get_dates_ls) = 0
    /\ data_json' = Flatten(data)
    /\ disk' = [disk EXCEPT !.new_garmin_sleep_json = Flatten(data)]
    /\ written' = Append(written, "new_garmin_sleep_json")
    /\ pc' = "step3"
    /\ UNCHANGED <<env, nights_df, new_req_dates_ls, request, complete_dates_ls,
                   get_dates_ls, data, periods, sun_requests, run, before, first>>

to_pickleSkipped(files, archive) == files

\* save merged results: nights_df.to_pickle(proj_path + garmin_results_pkl_fn)
to_pickle(files, archive) == [files EXCEPT !.garmin_sleep_df = archive]

\* do_sync_step3 -> step3: merge and save the archive, then read the legacy
\* tables (which raises when a file is not there), derive and save the two tables
Step3 ==
    /\ pc = "step3"
    /\ IF step3MergeRaises(nights_df, data_json, new_req_dates_ls)
       THEN /\ pc' = "failed"
            /\ UNCHANGED <<disk, complete_dates_ls, written>>
       ELSE \E archive \in {merged_nights_df(nights_df, data_json, new_req_dates_ls)},
               legacy_read \in BOOLEAN :
                   IF legacy_read
                   THEN /\ disk' = [to_pickle(disk, archive) EXCEPT
                                      !.all_sleep_descr_df = all_descr_df(archive, ms_df),
                                      !.all_sleep_event_df = all_event_df(archive, ms_df)]
                        /\ complete_dates_ls' = step3_complete_dates_ls(archive, ms_df)
                        /\ written' = written \o <<"garmin_sleep_df",
                                                   "all_sleep_descr_df",
                                                   "all_sleep_event_df">>
                        /\ pc' = "step4"
                   ELSE /\ disk' = to_pickle(disk, archive)
                        /\ written' = Append(written, "garmin_sleep_df")
                        /\ pc' = "failed"
                        /\ UNCHANGED complete_dates_ls
    /\ UNCHANGED <<env, nights_df, new_req_dates_ls, request, data_json, get_dates_ls,
                   data, periods, sun_requests, run, before, first>>

\* do_sync_step4 -> step4: one almanac request per new date, in order; the first
\* answer that is not 200 raises, and sun_df is written only after the loop
Step4 ==
    /\ pc = "step4"
    /\ LET new == new_sun_dates_ls(disk.sun_df, complete_dates_ls)
       IN  \E answered \in 0..Len(new) :
              /\ sun_requests' = step4_requested(new, answered)
              /\ disk' = [disk EXCEPT !.sun_df = step4_to_pickle(disk.sun_df, new, answered)]
              /\ IF answered = Len(new)
                 THEN /\ written' = Append(written, "sun_df")
                      /\ pc' = "done"
                 ELSE /\ pc' = "failed"
                      /\ UNCHANGED written
    /\ UNCHANGED <<env, nights_df, new_req_dates_ls, request, data_json,
                   complete_dates_ls, get_dates_ls, data, periods, run, before, first>>

\* the pipeline is invoked again after a completed run: the app is started anew
\* (its module-level values are those of the import) and Sync Data is clicked
NewRun ==
    /\ pc = "done"
    /\ run < MaxRuns
    /\ run' = run + 1
    /\ pc' = "step0"
    /\ nights_df' = <<>>
    /\ new_req_dates_ls' = <<>>
    /\ request' = [status_code |-> 0, headers |-> FALSE]
    /\ data_json' = <<>>
    /\ complete_dates_ls' = <<>>
    /\ get_dates_ls' = <<>>
    /\ data' = <<>>
    /\ before' = disk
    /\ written' = <<>>
    /\ periods' = <<>>
    /\ sun_requests' = <<>>
    /\ first' = IF run = 1 THEN <<disk>> ELSE first
    /\ UNCHANGED <<env, disk>>

Next ==
    \/ Step0
    \/ Step1
    \/ Step2Start
    \/ Step2Request
    \/ Step2Finish
    \/ Step3
    \/ Step4
    \/ NewRun

\* ------------------------------------------------------------- initial states

\* an archived night of date d as step3 stores it
ArchiveRow(kind, d) ==
    IF kind = "null" THEN new_missing_row(d)
    ELSE converter(ProviderEntry(kind, d + 1))[1]

\* the archive that holds, in date order, a row of kinds[d] for every date d of
\* first_day .. last_day whose kind is not "none"
ArchiveOf(kinds, first_day, last_day) ==
    LET days == SetToSeq({d \in first_day..last_day : kinds[d] # "none"})
    IN  [i \in DOMAIN days |-> ArchiveRow(kinds[days[i]], days[i])]

\* step3 never leaves a null night last, and never leaves an archive of nulls
NoTrailingNull(archive) ==
    IF Len(archive) = 0 THEN TRUE ELSE archive[Len(archive)].Total_Dur # NaT

\* a row of a legacy Activity_Summary table, dated relative to the day s
LegacyRow(k, s) ==
    LET at(day, h, m) == day * 86400 + h * 3600 + m * 60
    IN  CASE k = 1 -> \* a night begun in the evening, five days before s
                [Event_Type |-> "Sleep", Date |-> s - 5,
                 Start_Time |-> at(s - 5, 23, 10), Wake_Up_Time |-> at(s - 4, 6, 40),
                 Seconds_Awake |-> 600, Seconds_Asleep_Light |-> 20000,
                 Seconds_Asleep_Restful |-> 6400]
          [] k = 2 -> \* a night begun after midnight, ended after noon
                [Event_Type |-> "Sleep", Date |-> s - 1,
                 Start_Time |-> at(s - 1, 0, 45), Wake_Up_Time |-> at(s - 1, 12, 30),
                 Seconds_Awake |-> 900, Seconds_Asleep_Light |-> 30000,
                 Seconds_Asleep_Restful |-> 11400]
          [] k = 3 -> \* an afternoon nap
                [Event_Type |-> "Sleep", Date |-> s - 2,
                 Start_Time |-> at(s - 2, 14, 0), Wake_Up_Time |-> at(s - 2, 15, 30),
                 Seconds_Awake |-> 0, Seconds_Asleep_Light |-> 5000,
                 Seconds_Asleep_Restful |-> 400]
          [] k = 4 -> \* a night of unknown duration
                [Event_Type |-> "Sleep", Date |-> s - 2,
                 Start_Time |-> at(s - 2, 22, 0), Wake_Up_Time |-> NaT,
                 Seconds_Awake |-> NaT, Seconds_Asleep_Light |-> NaT,
                 Seconds_Asleep_Restful |-> NaT]
          [] k = 5 -> \* an activity that is no sleep
                [Event_Type |-> "Run", Date |-> s - 3,
                 Start_Time |-> at(s - 3, 17, 0), Wake_Up_Time |-> NaT,
                 Seconds_Awake |-> NaT, Seconds_Asleep_Light |-> NaT,
                 Seconds_Asleep_Restful |-> NaT]
          [] k = 6 -> \* three hours of sleep begun late in the evening
                [Event_Type |-> "Sleep", Date |-> s - 3,
                 Start_Time |-> at(s - 3, 23, 0), Wake_Up_Time |-> at(s - 2, 2, 0),
                 Seconds_Awake |-> 300, Seconds_Asleep_Light |-> 8000,
                 Seconds_Asleep_Restful |-> 2500]

LegacyKinds == 1..5

\* the legacy tables of at most MaxLegacy rows, of different kinds
LegacyTables(s) ==
    UNION {{[i \in 1..n |-> LegacyRow(ks[i], s)] :
               ks \in {f \in [1..n -> LegacyKinds] : \A i \in 1..(n - 1) : f[i] < f[i + 1]}}
           : n \in 0..MaxLegacy}

\* the tables step3 would have derived from an archive and the legacy rows
DerivedFiles(archive, both, legacy) ==
    [garmin_sleep_df       |-> archive,
     new_garmin_sleep_json |-> <<>>,
     all_sleep_descr_df    |-> IF Len(both) > 0 THEN all_descr_df(archive, legacy) ELSE <<>>,
     all_sleep_event_df    |-> IF Len(both) > 0 THEN all_event_df(archive, legacy) ELSE <<>>,
     sun_df                |-> <<>>]

DerivedDisk(archive, legacy) ==
    DerivedFiles(archive, combined_df(archive, legacy), legacy)

\* the files a completed run would have left for an archive and the legacy
\* rows: the derived tables, and a solar file with a row for each of their dates
SolarDisk(archive, legacy) ==
    [DerivedDisk(archive, legacy) EXCEPT
        !.sun_df = sun_rows(step3_complete_dates_ls(archive, legacy),
                            Len(step3_complete_dates_ls(archive, legacy)))]

\* the configuration and the environment of a run
InitEnv(s, e, legacy, hol) ==
    /\ start_date = YMD(s)
    /\ end_date = YMD(e)
    /\ ms_df = legacy
    /\ federal_holidays = hol

\* the state after the modules are loaded, for the files under data/ and the
\* nights the provider holds
InitWith(s, e, files, kinds) ==
    /\ provider = [c \in s..e |-> ProviderEntry(kinds[c], c)]
    /\ disk = files
    /\ before = files
    /\ nights_df = <<>>
    /\ new_req_dates_ls = <<>>
    /\ request = [status_code |-> 0, headers |-> FALSE]
    /\ data_json = <<>>
    /\ complete_dates_ls = <<>>
    /\ get_dates_ls = <<>>
    /\ data = <<>>
    /\ periods = <<>>
    /\ sun_requests = <<>>
    /\ pc = "step0"
    /\ run = 1
    /\ written = <<>>
    /\ first = <<>>

\* the first day of the range: the Wednesday before Thanksgiving 2017
FirstDay == Date(2017, 11, 22)

LastDay == FirstDay + NumDays - 1

\* Veterans Day (observed) and Thanksgiving 2017
HolidayDates == {Date(2017, 11, 10), Date(2017, 11, 23)}

\* the provider reports at most one date twice, and a night it has no values
\* for is either left out of every answer or reported without values in every
\* answer
ProviderKinds(pkinds) ==
    /\ Cardinality({c \in DOMAIN pkinds : pkinds[c] = "twice"}) <= 1
    /\ ~({"none", "null"} \subseteq {pkinds[c] : c \in DOMAIN pkinds})

\* the files an earlier run has left, with every provider over the range
InitProviders(files, kindset) ==
    \E pkinds \in [FirstDay..LastDay -> kindset] :
        /\ ProviderKinds(pkinds)
        /\ InitWith(FirstDay, LastDay, files, pkinds)

\* the archives over the range an earlier run can have left
InitArchives ==
    {ArchiveOf(akinds, FirstDay, LastDay) :
        akinds \in {k \in [FirstDay..LastDay -> {"none", "null", "early"}] :
                       NoTrailingNull(ArchiveOf(k, FirstDay, LastDay))}}

\* every archive and every provider over the range, with one legacy table and
\* the solar file of the archive's dates
InitMerge ==
    /\ InitEnv(FirstDay, LastDay, <<LegacyRow(1, FirstDay)>>, {Date(2017, 11, 23)})
    /\ \E files \in {SolarDisk(archive, ms_df) : archive \in InitArchives} :
          InitProviders(files, {"none", "null", "early", "twice"})

\* every legacy table and holiday list, with no archive yet and populated nights
\* at every clock
InitDerive ==
    \E legacy \in LegacyTables(FirstDay), hol \in SUBSET HolidayDates :
        /\ InitEnv(FirstDay, LastDay, legacy, hol)
        /\ \E files \in {DerivedDisk(<<>>, legacy)} :
              InitProviders(files, {"early", "late"})

Init == InitMerge \/ InitDerive

Spec == Init /\ [][Next]_vars

\* ------------------------------------------- a range of more than one period

LongLastDay == FirstDay + LongDays - 1

\* a first installation over a long range: no archive, a night for every date,
\* one of the dates at the ends of the periods reported in every way
InitLong ==
    /\ InitEnv(FirstDay, LongLastDay, <<LegacyRow(1, FirstDay)>>, {Date(2017, 11, 23)})
    /\ \E special \in {FirstDay, FirstDay + max_period_delta, LongLastDay},
          kind \in {"none", "null", "early", "late"} :
          InitWith(FirstDay, LongLastDay, DerivedDisk(<<>>, ms_df),
                   [c \in FirstDay..LongLastDay |-> IF c = special THEN kind ELSE "early"])

SpecLong == InitLong /\ [][Next]_vars

\* ------------------------------------------- the scenario of ten archived nights

ScenarioStart == Date(2020, 1, 1)

ScenarioArchived == Date(2020, 1, 10)

ScenarioEnd == Date(2020, 1, 15)

\* populated nights for 2020-01-01 .. 2020-01-10 in the archive, the range ending
\* at 2020-01-15, and a populated night for every date at the provider
InitScenario ==
    \E legacy \in {<<>>, <<LegacyRow(1, ScenarioStart)>>},
       late \in SUBSET ((ScenarioArchived + 1)..ScenarioEnd) :
        /\ InitEnv(ScenarioStart, ScenarioEnd, legacy, {Date(2020, 1, 1)})
        /\ InitWith(ScenarioStart, ScenarioEnd,
                    DerivedDisk(ArchiveOf([d \in ScenarioStart..ScenarioEnd |->
                                              IF d <= ScenarioArchived THEN "early" ELSE "none"],
                                          ScenarioStart, ScenarioEnd),
                                legacy),
                    [c \in ScenarioStart..ScenarioEnd |->
                        IF c \in late THEN "late" ELSE "early"])

SpecScenario == InitScenario /\ [][Next]_vars

\* ------------------------------------------------------------- properties

\* step3 has merged and saved the archive in this run
MergePersisted == \E i \in DOMAIN written : written[i] = "garmin_sleep_df"

\* the frame step3 holds after the merge and the sort, before the trim
merged_before_trim == merge(nights_df, fill_missing(new_req_dates_ls, converter(data_json)))

NoDuplicateDates(df) ==
    \A i, j \in DOMAIN df : i # j => df[i].Prev_Day # df[j].Prev_Day

\* C1: after a completed merge over a prior archive of unique dates (the first
\* run of a behaviour starts from one), the persisted archive holds at most one
\* record per previous-day date
C1_AtMostOneRecordPerDate ==
    (run = 1 /\ MergePersisted) => NoDuplicateDates(disk.garmin_sleep_df)

\* C2 as stated: after a run whose fetch and merge succeeded, every requested
\* date is in the persisted archive
C2_EveryRequestedDateArchived ==
    MergePersisted =>
        \A i \in DOMAIN new_req_dates_ls :
            new_req_dates_ls[i] \in PrevDays(disk.garmin_sleep_df)

\* C2, amended: after a run whose fetch and merge succeeded, a requested date
\* is in the persisted archive unless the trailing-null trim took it, and then
\* every persisted record is dated before it
C2_RequestedDateArchivedOrTrimmed ==
    MergePersisted =>
        \A i \in DOMAIN new_req_dates_ls :
            \/ new_req_dates_ls[i] \in PrevDays(disk.garmin_sleep_df)
            \/ \A d \in PrevDays(disk.garmin_sleep_df) : d < new_req_dates_ls[i]

\* a merge has kept a requested date as a null placeholder and has trimmed
\* another requested date
C2_Witness ==
    /\ MergePersisted
    /\ \E i \in DOMAIN new_req_dates_ls, k \in DOMAIN disk.garmin_sleep_df :
          /\ disk.garmin_sleep_df[k].Prev_Day = new_req_dates_ls[i]
          /\ disk.garmin_sleep_df[k].Total_Dur = NaT
    /\ \E i \in DOMAIN new_req_dates_ls :
          new_req_dates_ls[i] \notin PrevDays(disk.garmin_sleep_df)

\* the four tables of a set of files
Tables(files) ==
    <<files.garmin_sleep_df, files.all_sleep_descr_df, files.all_sleep_event_df,
      files.sun_df>>

\* C3: when the pipeline has completed and completes again, the archive, the
\* description table, the event table and the solar table are those the first
\* completed run left
C3_Idempotent ==
    (run >= 2 /\ pc = "done") => Tables(disk) = Tables(first[1])

\* a second run has requested dates again, has completed, and left tables with rows
C3_Witness ==
    /\ run = 2
    /\ pc = "done"
    /\ Len(new_req_dates_ls) > 0
    /\ Len(data_json) > 0
    /\ Len(disk.garmin_sleep_df) > 1
    /\ Len(disk.sun_df) > 0

\* C4: in the scenario, after the fetch and the merge of the first run the
\* persisted archive has exactly one record per date 2020-01-01 .. 2020-01-15,
\* in ascending order
C4_FifteenRecords ==
    (run = 1 /\ MergePersisted) =>
        [i \in DOMAIN disk.garmin_sleep_df |-> disk.garmin_sleep_df[i].Prev_Day]
            = daterange(ScenarioStart, ScenarioEnd)

\* a record of the merged frame is followed by a record of a later date that has
\* a duration
LaterNonNull(df, i) ==
    \E j \in DOMAIN df : df[j].Prev_Day > df[i].Prev_Day /\ df[j].Total_Dur # NaT

\* C5: the trim removes exactly the null-duration records that no record of a
\* later date with a duration follows: the persisted archive is the merged
\* frame without them
C5_TrimExactlyTrailingNulls ==
    MergePersisted =>
        LET df == merged_before_trim
            kept == {i \in DOMAIN df : df[i].Total_Dur # NaT \/ LaterNonNull(df, i)}
        IN  disk.garmin_sleep_df = [k \in 1..Cardinality(kept) |->
                df[CHOOSE i \in kept : Cardinality({j \in kept : j <= i}) = k]]

\* step3 has derived and saved the description and the event table in this run
DerivedPersisted == \E i \in DOMAIN written : written[i] = "all_sleep_event_df"

\* hour + minute/60 of an instant on the local clock, in minutes
ClockMinutes(t) == 60 * LocalHour(t) + LocalMinute(t)

\* t when t <= 12 and t - 24 when t > 12, in minutes
Normalized(t) == IF t > Noon THEN t - FullDay ELSE t

InHalfDays(tod) == -Noon < tod /\ tod <= Noon

\* C6 as stated: every time of day stored when step3 has saved its tables, the
\* one of every 'Woke Up' row included, is the normalized clock time and lies
\* in (-12, 12]
C6_EveryToDNormalized ==
    DerivedPersisted =>
    /\ \A i \in DOMAIN disk.all_sleep_event_df :
          LET e == disk.all_sleep_event_df[i]
          IN  e.DateTime # NaT =>
                 e.ToD = Normalized(ClockMinutes(e.DateTime)) /\ InHalfDays(e.ToD)
    /\ \A i \in DOMAIN disk.sun_df :
          LET r == disk.sun_df[i]
          IN  /\ r.Sunrise_ToD = Normalized(ClockMinutes(r.Sunrise))
              /\ r.Sunset_ToD = Normalized(ClockMinutes(r.Sunset))
              /\ InHalfDays(r.Sunrise_ToD) /\ InHalfDays(r.Sunset_ToD)

\* C6, amended: when step3 has saved its tables, the time of day of every
\* 'Fell Asleep' row, of every sunrise and of every sunset is the normalized
\* clock time and lies in (-12, 12]; the time of day of every 'Woke Up' row is
\* the clock time itself, in [0, 24)
C6_BedAndSunNormalized ==
    DerivedPersisted =>
    /\ \A i \in DOMAIN disk.all_sleep_event_df :
          LET e == disk.all_sleep_event_df[i]
          IN  e.DateTime # NaT =>
                 IF e.Event = "Fell Asleep"
                 THEN e.ToD = Normalized(ClockMinutes(e.DateTime)) /\ InHalfDays(e.ToD)
                 ELSE e.ToD = ClockMinutes(e.DateTime) /\ 0 <= e.ToD /\ e.ToD < FullDay
    /\ \A i \in DOMAIN disk.sun_df :
          LET r == disk.sun_df[i]
          IN  /\ r.Sunrise_ToD = Normalized(ClockMinutes(r.Sunrise))
              /\ r.Sunset_ToD = Normalized(ClockMinutes(r.Sunset))
              /\ InHalfDays(r.Sunrise_ToD) /\ InHalfDays(r.Sunset_ToD)

\* a completed run has stored an evening bed time, a wake time after noon and
\* an evening sunset
C6_Witness ==
    /\ pc = "done"
    /\ \E i \in DOMAIN disk.all_sleep_event_df :
          /\ disk.all_sleep_event_df[i].Event = "Fell Asleep"
          /\ disk.all_sleep_event_df[i].DateTime # NaT
          /\ disk.all_sleep_event_df[i].ToD < 0
    /\ \E i \in DOMAIN disk.all_sleep_event_df :
          /\ disk.all_sleep_event_df[i].Event = "Woke Up"
          /\ disk.all_sleep_event_df[i].ToD > Noon
    /\ \E i \in DOMAIN disk.sun_df : disk.sun_df[i].Sunset_ToD < 0

\* C7 as stated: no row of the description table step3 has written that is
\* dated a Saturday or a Sunday has Is_Workday true
C7_NoSaturdaySundayWorkday ==
    DerivedPersisted =>
    \A i \in DOMAIN disk.all_sleep_descr_df :
        Weekday(disk.all_sleep_descr_df[i].Prev_Day) \in {5, 6} =>
            ~disk.all_sleep_descr_df[i].Is_Workday

\* C7, amended: no row of the description table step3 has written that is
\* dated a Friday or a Saturday has Is_Workday true, whether or not that date is
\* also a holiday
C7_NoFridaySaturdayWorkday ==
    DerivedPersisted =>
    \A i \in DOMAIN disk.all_sleep_descr_df :
        Weekday(disk.all_sleep_descr_df[i].Prev_Day) \in {4, 5} =>
            ~disk.all_sleep_descr_df[i].Is_Workday

\* step3 has written a table with a Friday that is the day after a Thanksgiving
\* of the calendar, and a Saturday, neither a workday
C7_Witness ==
    /\ DerivedPersisted
    /\ \E i \in DOMAIN disk.all_sleep_descr_df :
          /\ Weekday(disk.all_sleep_descr_df[i].Prev_Day) = 4
          /\ (disk.all_sleep_descr_df[i].Prev_Day - 1) \in federal_holidays
          /\ ~disk.all_sleep_descr_df[i].Is_Workday
    /\ \E i \in DOMAIN disk.all_sleep_descr_df :
          /\ Weekday(disk.all_sleep_descr_df[i].Prev_Day) = 5
          /\ ~disk.all_sleep_descr_df[i].Is_Workday

\* the rows of the event table of a session
EventsOf(id) ==
    {i \in DOMAIN disk.all_sleep_event_df :
        disk.all_sleep_event_df[i].Sleep_Session_ID = id}

\* C8: every session of the description table has exactly two rows in the event
\* table, one 'Fell Asleep' and one 'Woke Up', whether its times are known or
\* not, and the event table has rows of no other session
C8_TwoEventsPerSession ==
    /\ \A s \in DOMAIN disk.all_sleep_descr_df :
          LET rows == EventsOf(disk.all_sleep_descr_df[s].Sleep_Session_ID)
          IN  /\ Cardinality(rows) = 2
              /\ \E i \in rows : disk.all_sleep_event_df[i].Event = "Fell Asleep"
              /\ \E i \in rows : disk.all_sleep_event_df[i].Event = "Woke Up"
    /\ \A i \in DOMAIN disk.all_sleep_event_df :
          \E s \in DOMAIN disk.all_sleep_descr_df :
             disk.all_sleep_descr_df[s].Sleep_Session_ID
                = disk.all_sleep_event_df[i].Sleep_Session_ID

\* step3 has written the events of a session with both times, of a session
\* with no time, and of two sessions of one date
C8_Witness ==
    /\ DerivedPersisted
    /\ \E s \in DOMAIN disk.all_sleep_descr_df :
          \A i \in EventsOf(disk.all_sleep_descr_df[s].Sleep_Session_ID) :
             disk.all_sleep_event_df[i].DateTime # NaT
    /\ \E s \in DOMAIN disk.all_sleep_descr_df :
          \A i \in EventsOf(disk.all_sleep_descr_df[s].Sleep_Session_ID) :
             disk.all_sleep_event_df[i].DateTime = NaT
    /\ ~NoDuplicateDates(disk.all_sleep_descr_df)

\* C9: when a request of step2 is answered with a status other than 200, the
\* run has ended in step2, nothing was handed to the merge, and the files on
\* disk are those from before the run
C9_AllOrNothingFetch ==
    (\E i \in DOMAIN periods : periods[i][3] # 200) =>
        /\ pc = "failed"
        /\ data_json = <<>>
        /\ written = <<>>
        /\ disk = before

\* the second period of a run was refused after the first had brought nights
C9_Witness ==
    /\ Len(periods) = 2
    /\ periods[1][3] = 200
    /\ periods[2][3] # 200
    /\ Len(data) = 1
    /\ Len(data[1]) > 0
    /\ pc = "failed"
    /\ Len(before.all_sleep_descr_df) > 0

\* C10: whatever the encoding of a response, what download_to_json returned
\* for it is a list of nightly record objects
C10_PayloadParsed ==
    \A i \in DOMAIN data : \A j \in DOMAIN data[i] : IsObject(data[i][j])

\* step1 has handed over the handle of a probe that was not answered 200 or
\* that has no usable headers
AcquisitionFailed ==
    /\ request.status_code # 0
    /\ (request.status_code # 200 \/ ~request.headers)

\* C11: when the login probe is not answered 200 or has no usable headers,
\* the run has ended in a failure: no handle is kept and step2 is not started
C11_FailedLoginEndsRun == AcquisitionFailed => pc = "failed"

\* step0 of this run has found no missing date ("Archived data is up to date")
UpToDate == pc # "step0" /\ Len(new_req_dates_ls) = 0

\* C12: when step0 has found no missing date, the run goes no further: step1
\* and step2 are not invoked and no stage raises
C12_UpToDateEndsRun ==
    UpToDate =>
        /\ request.status_code = 0
        /\ pc \notin {"step2", "step2_loop", "step3", "step4", "failed"}

\* C13: when a run has failed after the merge (at the load of the legacy
\* tables or in step4), the archive on disk is already the one this run merged,
\* and the next step0 requests none of its dates
C13_ArchivePersistedBeforeLaterWork ==
    (MergePersisted /\ pc = "failed") =>
        /\ disk.garmin_sleep_df = trim(merged_before_trim)
        /\ \A d \in Range(step0_new_req_dates_ls(disk.garmin_sleep_df)) :
              d \notin PrevDays(disk.garmin_sleep_df)

\* a run has failed at the load of the legacy tables after it had merged a
\* night the archive did not have before
C13_Witness ==
    /\ pc = "failed"
    /\ written = <<"new_garmin_sleep_json", "garmin_sleep_df">>
    /\ disk.all_sleep_descr_df = before.all_sleep_descr_df
    /\ \E i \in DOMAIN disk.garmin_sleep_df :
          /\ disk.garmin_sleep_df[i].Total_Dur # NaT
          /\ disk.garmin_sleep_df[i].Prev_Day \notin PrevDays(before.garmin_sleep_df)

\* step4 of this run has raised on an almanac request: the last of sun_requests
Step4Failed == pc = "failed" /\ Len(sun_requests) > 0

\* C14: when an almanac request of step4 has failed, the solar file holds a row
\* for every date requested before it in this run
C14_EarlierSunRowsPersisted ==
    Step4Failed =>
        \A i \in 1..(Len(sun_requests) - 1) :
            \E k \in DOMAIN disk.sun_df : disk.sun_df[k].Date = sun_requests[i]

\* C15: when an almanac request of step4 has failed, the dates requested are
\* the new dates up to the failed one and no later one, and the solar file is
\* the one from before the run
C15_SunFileUntouchedOnFailure ==
    Step4Failed =>
        /\ disk.sun_df = before.sun_df
        /\ sun_requests = SubSeq(new_sun_dates_ls(before.sun_df, complete_dates_ls),
                                 1, Len(sun_requests))
        /\ "sun_df" \notin Range(written)

\* the almanac has refused a date after it had answered an earlier one, with
\* dates left to request and a solar file that had rows before the run
C15_Witness ==
    /\ Step4Failed
    /\ Len(sun_requests) >= 2
    /\ Len(before.sun_df) > 0
    /\ Len(sun_requests) < Len(new_sun_dates_ls(before.sun_df, complete_dates_ls))

\* ------------------------------------------- clicks while a run is in flight

\* the run has started its chain of callbacks and has not ended
InFlight == pc \in {"step1", "step2", "step2_loop", "step3", "step4"}

\* the hidden "sync-finished" flag: set by the last callback of a completed run
sync_finished == pc = "done"

\* sync_data for a click on a Sync Data button: the message it hands to
\* do_sync_step0, "None" for none
sync_data(finished) == IF finished THEN "None" ELSE "Completed steps:"

\* a click on a Sync Data button while a run is in flight: sync_data hands its
\* message to do_sync_step0, which runs step0 and assigns the module-level
\* values again.  The later callbacks of this second chain are left out
Click ==
    /\ InFlight
    /\ sync_data(sync_finished) # "None"
    /\ nights_df' = disk.garmin_sleep_df
    /\ new_req_dates_ls' = step0_new_req_dates_ls(disk.garmin_sleep_df)
    /\ UNCHANGED <<env, disk, request, data_json, complete_dates_ls, get_dates_ls,
                   data, periods, sun_requests, pc, run, written, before, first>>

NextClicks == Next \/ Click

\* the runs, with clicks on the Sync Data buttons at any time
SpecClicks == Init /\ [][NextClicks]_vars

\* C16: while a run is in flight no other execution of step0 starts: the
\* module-level values step0 assigns, nights_df and new_req_dates_ls, keep the
\* values this run's step0 gave them
C16_OneRunInFlight ==
    [][InFlight => (nights_df' = nights_df /\ new_req_dates_ls' = new_req_dates_ls)]_vars


\* ------------------------------------------------- rendering during a sync

\* step3 up to its first derived write: the archive and the description table
\* are on disk, the event table is still the one of the derivation before
Step3Descr ==
    /\ pc = "step3"
    /\ IF step3MergeRaises(nights_df, data_json, new_req_dates_ls)
       THEN /\ pc' = "failed"
            /\ UNCHANGED <<disk, complete_dates_ls, written>>
       ELSE \E archive \in {merged_nights_df(nights_df, data_json, new_req_dates_ls)},
               legacy_read \in BOOLEAN :
                   IF legacy_read
                   THEN /\ disk' = [to_pickle(disk, archive) EXCEPT
                                      !.all_sleep_descr_df = all_descr_df(archive, ms_df)]
                        /\ complete_dates_ls' = step3_complete_dates_ls(archive, ms_df)
                        /\ written' = written \o <<"garmin_sleep_df",
                                                   "all_sleep_descr_df">>
                        /\ pc' = "step3_event"
                   ELSE /\ disk' = to_pickle(disk, archive)
                        /\ written' = Append(written, "garmin_sleep_df")
                        /\ pc' = "failed"
                        /\ UNCHANGED complete_dates_ls
    /\ UNCHANGED <<env, nights_df, new_req_dates_ls, request, data_json, get_dates_ls,
                   data, periods, sun_requests, run, before, first>>

\* all_sleep_event_df.to_pickle: the second derived write of step3
Step3Event ==
    /\ pc = "step3_event"
    /\ disk' = [disk EXCEPT
                  !.all_sleep_event_df = all_event_df(disk.garmin_sleep_df, ms_df)]
    /\ written' = Append(written, "all_sleep_event_df")
    /\ pc' = "step4"
    /\ UNCHANGED <<env, nights_df, new_req_dates_ls, request, data_json,
                   complete_dates_ls, get_dates_ls, data, periods, sun_requests,
                   run, before, first>>

NextRender ==
    \/ Step0
    \/ Step1
    \/ Step2Start
    \/ Step2Request
    \/ Step2Finish
    \/ Step3Descr
    \/ Step3Event
    \/ Step4
    \/ NewRun

\* the sync callbacks with the writes of step3 as separate steps; a render
\* callback may read the files in any state
SpecRender == Init /\ [][NextRender]_vars

\* update_graph and annual_update_graph: the tables a render reads from disk
update_graph_reads(files) ==
    [sleep_descr_df |-> files.all_sleep_descr_df,
     sleep_event_df |-> files.all_sleep_event_df,
     sun_df         |-> files.sun_df]

Session_IDs(df) == {df[i].Sleep_Session_ID : i \in DOMAIN df}

\* C17: whenever a render reads the files, the description table and the event
\* table it reads hold the same set of session IDs, also while step3 is writing
C17_RenderSeesOneDerivation ==
    Session_IDs(update_graph_reads(disk).sleep_descr_df)
        = Session_IDs(update_graph_reads(disk).sleep_event_df)

\* ------------------------------------------------ one description row a date

\* the rows of a table dated d
RowsOfDate(df, d) == {i \in DOMAIN df : df[i].Prev_Day = d}

\* step3 has derived the tables of this run
Step3Derived == pc = "step4"

\* C18: once step3 has derived the tables, every date from the earliest to the
\* latest date of the archive and the legacy rows together is the date of
\* exactly one row of the description table
C18_EveryDateExactlyOnce ==
    Step3Derived =>
        \A i \in DOMAIN complete_dates_ls :
            Cardinality(RowsOfDate(disk.all_sleep_descr_df, complete_dates_ls[i])) = 1

\* the part of C18 that holds: every date of the span is the date of a row
C18_EveryDateCovered ==
    Step3Derived =>
        \A i \in DOMAIN complete_dates_ls :
            RowsOfDate(disk.all_sleep_descr_df, complete_dates_ls[i]) # {}

\* ------------------------------------------------ one solar record a date

SunDates(sun_df) == {sun_df[i].Date : i \in DOMAIN sun_df}

\* no two rows of the solar file have the same date
OneSunRowPerDate(sun_df) ==
    \A i, j \in DOMAIN sun_df : i # j => sun_df[i].Date # sun_df[j].Date

Step4Completed == pc = "done"

\* C19: when step4 has completed, the solar file holds no date twice; the dates
\* requested from the almanac are, once each, the dates of the input list the
\* file did not hold, and the file is the one before with one row appended for
\* each request, in the order of the requests
C19_OneSunRecordPerDate ==
    Step4Completed =>
        /\ OneSunRowPerDate(disk.sun_df)
        /\ \A i, j \in DOMAIN sun_requests : i # j => sun_requests[i] # sun_requests[j]
        /\ Range(sun_requests) = Range(complete_dates_ls) \ SunDates(before.sun_df)
        /\ Len(disk.sun_df) = Len(before.sun_df) + Len(sun_requests)
        /\ SubSeq(disk.sun_df, 1, Len(before.sun_df)) = before.sun_df
        /\ \A i \in DOMAIN sun_requests :
              disk.sun_df[Len(before.sun_df) + i].Date = sun_requests[i]

\* step4 has completed for an input list of which the solar file held some
\* dates and lacked others
C19_Witness ==
    /\ Step4Completed
    /\ Len(sun_requests) > 0
    /\ Range(complete_dates_ls) \cap SunDates(before.sun_df) # {}
    /\ Len(disk.sun_df) > Len(sun_requests)

\* ------------------------------------------------ the span of a request

\* C20: every period step2 has requested ends at most max_period_delta days
\* after it starts, and not before it starts
C20_RequestSpanBounded ==
    \A i \in DOMAIN periods :
        /\ periods[i][2] - periods[i][1] <= max_period_delta
        /\ periods[i][2] >= periods[i][1]

\* step2 has requested a period cut at max_period_delta days and, after it, the
\* period of the dates left over
C20_Witness ==
    /\ Len(periods) = 2
    /\ periods[1][2] - periods[1][1] = max_period_delta
    /\ periods[2][1] > periods[1][2]
    /\ Len(new_req_dates_ls) > max_period_delta + 1

\* ------------------------------------------------ the windows of step2

\* the archives over the long range that hold only nights at the ends of the
\* first period
ChunkArchives ==
    {ArchiveOf([c \in FirstDay..LongLastDay |-> IF c \in present THEN "early" ELSE "none"],
               FirstDay, LongLastDay) :
        present \in SUBSET {FirstDay + 1, FirstDay + max_period_delta - 1,
                            FirstDay + max_period_delta, LongLastDay}}

\* the long range with an archive that leaves missing dates with gaps, and a
\* night for every date at the provider
InitChunks ==
    /\ InitEnv(FirstDay, LongLastDay, <<LegacyRow(1, FirstDay)>>, {Date(2017, 11, 23)})
    /\ \E files \in {DerivedDisk(archive, ms_df) : archive \in ChunkArchives} :
          InitWith(FirstDay, LongLastDay, files,
                   [c \in FirstDay..LongLastDay |-> "early"])

\* the while loop of step2 keeps running: a request that is issued returns
SpecChunks == InitChunks /\ [][Next]_vars /\ WF_vars(Step2Request)

InWindow(d, period) == period[1] <= d /\ d <= period[2]

\* the windows requested so far start at a missing date, do not end before they
\* start, each lie after the one before, and hold every missing date that is
\* no longer to be requested
ChunkWindows ==
    /\ \A i \in DOMAIN periods :
          /\ periods[i][1] \in Range(new_req_dates_ls)
          /\ periods[i][1] <= periods[i][2]
    /\ \A i, j \in DOMAIN periods : i < j => periods[i][2] < periods[j][1]
    /\ pc = "step2_loop" =>
          \A d \in Range(new_req_dates_ls) \ Range(get_dates_ls) :
              \E i \in DOMAIN periods : InWindow(d, periods[i])
    /\ pc \in {"step3", "step4", "done"} =>
          \A d \in Range(new_req_dates_ls) :
              \E i \in DOMAIN periods : InWindow(d, periods[i])

\* C21: the windows step2 requests are issued in strictly ascending order, are
\* pairwise disjoint, start at a missing date and together hold every missing
\* date, and the loop ends: it raises or runs out of dates to request
C21_ChunkLoop ==
    /\ []ChunkWindows
    /\ (pc = "step2_loop") ~> (pc # "step2_loop" \/ Len(get_dates_ls) = 0)

\* step2 has left its loop after two windows, the first one cut at
\* max_period_delta days, for missing dates that are not consecutive
C21_Witness ==
    /\ pc = "step3"
    /\ Len(periods) = 2
    /\ periods[1][2] - periods[1][1] = max_period_delta
    /\ \E d \in periods[1][1]..periods[1][2] : d \notin Range(new_req_dates_ls)

\* ------------------------------------------------ the missing dates of step0

\* step0 has returned and no later stage has changed the files
Step0Returned == pc = "step1"

\* the calendar range [start_date, end_date] as day numbers
CalendarRange ==
    Date(start_date[1], start_date[2], start_date[3])
        .. Date(end_date[1], end_date[2], end_date[3])

\* C22: when step0 has returned, the missing dates are, in ascending order and
\* once each, the dates of the calendar range that are no archive date, the whole
\* range when the archive is empty, and no file has been written or changed
C22_GapDetector ==
    Step0Returned =>
        /\ \A i, j \in DOMAIN new_req_dates_ls :
              i < j => new_req_dates_ls[i] < new_req_dates_ls[j]
        /\ Range(new_req_dates_ls) = CalendarRange \ PrevDays(disk.garmin_sleep_df)
        /\ Len(disk.garmin_sleep_df) = 0 =>
              Len(new_req_dates_ls) = Cardinality(CalendarRange)
        /\ nights_df = disk.garmin_sleep_df
        /\ disk = before
        /\ written = <<>>

\* step0 has returned some dates of the range and left out others the archive has
C22_Witness ==
    /\ Step0Returned
    /\ Len(new_req_dates_ls) > 0
    /\ CalendarRange \cap PrevDays(disk.garmin_sleep_df) # {}

\* ------------------------------------------------ legacy rows after midnight

\* the recorded start of a legacy row is after midnight and before noon
StartsAfterMidnight(row) ==
    /\ hour(tz_localize(row.Start_Time)) # NaT
    /\ hour(tz_localize(row.Start_Time)) < 12

\* C23: when step3 has derived the tables, every legacy sleep row that starts
\* after midnight, the last row of the table included, has its Date moved back
\* one day as its Prev_Day, and every other row keeps its Date
C23_AfterMidnightMovedBack ==
    Step3Derived =>
        \A i \in DOMAIN sleep_rows(ms_df) :
            ms2_df(ms_df)[i].Prev_Day
                = IF StartsAfterMidnight(sleep_rows(ms_df)[i])
                  THEN sleep_rows(ms_df)[i].Date - 1
                  ELSE sleep_rows(ms_df)[i].Date

\* the part of C23 that holds: the same for every row but the last
C23_AllButLastMovedBack ==
    Step3Derived =>
        \A i \in 1..(Len(sleep_rows(ms_df)) - 1) :
            ms2_df(ms_df)[i].Prev_Day
                = IF StartsAfterMidnight(sleep_rows(ms_df)[i])
                  THEN sleep_rows(ms_df)[i].Date - 1
                  ELSE sleep_rows(ms_df)[i].Date

\* ------------------------------------------------ the legacy nap filter

\* the legacy rows the nap filter is about: a night, an afternoon nap, a night
\* of unknown duration and a short sleep begun late in the evening
NapKinds == {1, 3, 4, 6}

NapTables(s) ==
    UNION {{[i \in 1..n |-> LegacyRow(ks[i], s)] :
               ks \in {f \in [1..n -> NapKinds] : \A i \in 1..(n - 1) : f[i] < f[i + 1]}}
           : n \in 1..MaxLegacy}

\* a first installation with each of these legacy tables
InitNaps ==
    \E legacy \in NapTables(FirstDay) :
        /\ InitEnv(FirstDay, LastDay, legacy, {Date(2017, 11, 23)})
        /\ \E files \in {DerivedDisk(<<>>, legacy)} :
              InitProviders(files, {"early", "late"})

SpecNaps == InitNaps /\ [][Next]_vars

\* a bed time at night on any reading: from 22:00 to 05:00
NightBed(row) == row.Bed_ToD # NaT /\ row.Bed_ToD >= -120 /\ row.Bed_ToD <= 300

\* the legacy row is part of the unioned dataset
KeptLegacy(row) == row \in Range(ms3_df(ms_df))

\* C24: when step3 has derived the tables, a legacy row of unknown duration is
\* dropped, a legacy row of four hours or more is kept, and a legacy row under
\* four hours with a bed time at night is kept
C24_NapFilter ==
    Step3Derived =>
        \A i \in DOMAIN ms2_df(ms_df) :
            LET row == ms2_df(ms_df)[i]
            IN  /\ unknown_dur_bool(row) => ~KeptLegacy(row)
                /\ (~unknown_dur_bool(row) /\ ~brief_sleep_bool(row)) => KeptLegacy(row)
                /\ (brief_sleep_bool(row) /\ NightBed(row)) => KeptLegacy(row)

\* the part of C24 that holds: unknown durations are dropped, long sleeps kept
C24_UnknownDroppedLongKept ==
    Step3Derived =>
        \A i \in DOMAIN ms2_df(ms_df) :
            LET row == ms2_df(ms_df)[i]
            IN  /\ unknown_dur_bool(row) => ~KeptLegacy(row)
                /\ (~unknown_dur_bool(row) /\ ~brief_sleep_bool(row)) => KeptLegacy(row)

\* ------------------------------------------------ workdays and the windows

\* ranges that end before Christmas 2018, that hold it, and that reach into the
\* leave period
WindowStarts == {Date(2018, 12, 23), Date(2018, 12, 24), Date(2019, 10, 27)}

\* a first installation over each of these ranges, Christmas 2018 on the calendar
InitWindows ==
    \E s \in WindowStarts : \E legacy \in {<<>>, <<LegacyRow(1, s)>>} :
        /\ InitEnv(s, s + NumDays - 1, legacy, {Date(2018, 12, 25)})
        /\ \E files \in {DerivedDisk(<<>>, legacy)},
              pkinds \in [s..(s + NumDays - 1) -> {"early", "late"}] :
              InitWith(s, s + NumDays - 1, files, pkinds)

SpecWindows == InitWindows /\ [][Next]_vars

\* the leave period: from 2019-10-28 to the end date
InLeave(d) ==
    Date(2019, 10, 28) <= d /\ d <= Date(end_date[1], end_date[2], end_date[3])

\* the Christmas window: the eve of a Christmas of the calendar, and the day
\* itself to the sixth day after it
InChristmasWindow(d) ==
    \E h \in federal_holidays : Month(h) = 12 /\ h - 1 <= d /\ d <= h + 6

\* the Christmas window of the Christmases that lie between the first and the
\* last date of the table
InChristmasWindowOf(d, df) ==
    \E h \in federal_holidays :
        /\ Month(h) = 12
        /\ Min(PrevDays(df)) <= h /\ h <= Max(PrevDays(df))
        /\ h - 1 <= d /\ d <= h + 6

\* C25: in the description table step3 has written, a row is a workday exactly
\* when its date is no Friday or Saturday, is not flagged a holiday, and lies
\* neither in the leave period nor in the Christmas window; and no row is both
\* a workday and a holiday
C25_WorkdayIff ==
    DerivedPersisted =>
        \A i \in DOMAIN disk.all_sleep_descr_df :
            LET row == disk.all_sleep_descr_df[i]
            IN  /\ row.Is_Workday <=>
                      /\ Weekday(row.Prev_Day) \notin {4, 5}
                      /\ ~row.Is_Holiday
                      /\ ~InLeave(row.Prev_Day)
                      /\ ~InChristmasWindow(row.Prev_Day)
                /\ ~(row.Is_Workday /\ row.Is_Holiday)

\* the part of C25 that holds: the same with the Christmas window of the
\* Christmases between the first and the last date of the table
C25_WorkdayIffWithinTable ==
    DerivedPersisted =>
        \A i \in DOMAIN disk.all_sleep_descr_df :
            LET row == disk.all_sleep_descr_df[i]
            IN  /\ row.Is_Workday <=>
                      /\ Weekday(row.Prev_Day) \notin {4, 5}
                      /\ ~row.Is_Holiday
                      /\ ~InLeave(row.Prev_Day)
                      /\ ~InChristmasWindowOf(row.Prev_Day, disk.all_sleep_descr_df)
                /\ ~(row.Is_Workday /\ row.Is_Holiday)

\* ------------------------------------------------ session IDs

\* C26: in the tables step3 has written, the session ID of the row at position
\* i of the description table is i - 1, so the IDs are 0 .. n-1 and no two rows
\* share one; a row of a smaller ID has no later date than a row of a larger
\* ID; and every session ID of the event table is one of the description table
C26_SessionIDsByPosition ==
    DerivedPersisted =>
        /\ \A i \in DOMAIN disk.all_sleep_descr_df :
              disk.all_sleep_descr_df[i].Sleep_Session_ID = i - 1
        /\ \A i, j \in DOMAIN disk.all_sleep_descr_df :
              /\ i # j => disk.all_sleep_descr_df[i].Sleep_Session_ID
                            # disk.all_sleep_descr_df[j].Sleep_Session_ID
              /\ disk.all_sleep_descr_df[i].Sleep_Session_ID
                    < disk.all_sleep_descr_df[j].Sleep_Session_ID
                 => disk.all_sleep_descr_df[i].Prev_Day
                        <= disk.all_sleep_descr_df[j].Prev_Day
        /\ Session_IDs(disk.all_sleep_event_df) \subseteq Session_IDs(disk.all_sleep_descr_df)

\* step3 has written tables in which a date neither source had lies between
\* the dates of two sessions, so the row appended for it was moved by the sort
C26_Witness ==
    /\ DerivedPersisted
    /\ \E i, j, k \in DOMAIN disk.all_sleep_descr_df :
          /\ i < j /\ j < k
          /\ disk.all_sleep_descr_df[i].Total_Dur # NaT
          /\ disk.all_sleep_descr_df[j].Total_Dur = NaT
          /\ disk.all_sleep_descr_df[k].Total_Dur # NaT
          /\ disk.all_sleep_descr_df[j].Prev_Day \notin PrevDays(disk.garmin_sleep_df)
    /\ Len(disk.all_sleep_event_df) > 0

\* ------------------------------------------------ the order of the stages

\* the steps from one stage to the next: a stage that returned hands over to the
\* stage after it, a stage that raised to none
StageSteps ==
    {<<"step0", "step1">>,
     <<"step1", "step2">>, <<"step1", "failed">>,
     <<"step2", "step2_loop">>, <<"step2", "failed">>,
     <<"step2_loop", "step3">>, <<"step2_loop", "failed">>,
     <<"step3", "step4">>, <<"step3", "failed">>,
     <<"step4", "done">>, <<"step4", "failed">>,
     <<"done", "step0">>}

\* a stage is entered with what the stage before it returned and wrote
StageHandsOver ==
    /\ pc' = "step1" => nights_df' = disk'.garmin_sleep_df
    /\ pc' = "step3" =>
          /\ disk'.new_garmin_sleep_json = data_json'
          /\ written' = <<"new_garmin_sleep_json">>
    /\ pc' = "step4" =>
          /\ disk'.all_sleep_descr_df = all_descr_df(disk'.garmin_sleep_df, ms_df)
          /\ complete_dates_ls' = step3_complete_dates_ls(disk'.garmin_sleep_df, ms_df)
          /\ written' = <<"new_garmin_sleep_json", "garmin_sleep_df",
                          "all_sleep_descr_df", "all_sleep_event_df">>
    /\ pc' = "done" =>
          /\ Range(complete_dates_ls) \subseteq SunDates(disk'.sun_df)
          /\ written'[Len(written')] = "sun_df"

\* a stage that raises is the last stage of its run
StageRaiseEndsRun ==
    /\ (pc = "step2" /\ ~request.headers) => pc' = "failed"
    /\ (pc = "step2_loop" /\ \E i \in DOMAIN periods' : periods'[i][3] # 200)
          => pc' = "failed"
    /\ (pc = "step4" /\ Len(sun_requests') > 0
            /\ Len(disk'.sun_df) # Len(disk.sun_df) + Len(sun_requests'))
          => pc' = "failed"
    /\ pc = "failed" => pc' = "failed"

\* C27: every step of a run goes from a stage to the stage after it, which
\* starts with what the stage before returned and wrote, or ends the run when
\* the stage raises; after a raise no stage runs
C27_StagesInOrder ==
    [][/\ pc' # pc => <<pc, pc'>> \in StageSteps
       /\ pc' # pc => StageHandsOver
       /\ StageRaiseEndsRun]_vars

\* step3 has raised after it wrote the archive, and step4 has not run
C27_Witness ==
    /\ pc = "failed"
    /\ written = <<"new_garmin_sleep_json", "garmin_sleep_df">>
    /\ disk.garmin_sleep_df # before.garmin_sleep_df
    /\ sun_requests = <<>>
    /\ disk.sun_df = before.sun_df

\* ------------------------------------------------ the trailing-null trim

\* step3 has been called with records converter accepts, and has ended
Step3Ended ==
    /\ pc \in {"failed", "step4", "done"}
    /\ Len(written) > 0
    /\ written[1] = "new_garmin_sleep_json"
    /\ ~converterRaises(data_json)

\* C28: whenever step3 has ended for records converter accepts, it has come
\* through the trim of trailing null nights and has persisted an archive, also
\* when every night of the merged archive is null
C28_TrimCompletes ==
    Step3Ended => \E i \in DOMAIN written : written[i] = "garmin_sleep_df"

\* ------------------------------------------------ archive dates in the range

\* step3 has persisted the archive in this run
ArchivePersisted == \E i \in DOMAIN written : written[i] = "garmin_sleep_df"

\* C29: every record of the archive step3 has persisted has its Prev_Day in the
\* configured range [start_date, end_date]
C29_ArchiveDatesInRange ==
    ArchivePersisted =>
        \A i \in DOMAIN disk.garmin_sleep_df :
            disk.garmin_sleep_df[i].Prev_Day \in CalendarRange

\* ------------------------------------------------ a click after a finished sync

\* a message of the modal: its text and the number it shows (0 for none)
NoneMsg == <<"None", 0>>

\* step0's message for the dates it found missing
step0_msg(missing) ==
    IF Len(missing) = 0
    THEN <<"Archived data is up to date, no new data is available", 0>>
    ELSE <<"Current data was checked and night(s) are needed", Len(missing)>>

\* the children of sync-step-0 .. sync-step-6 a chain of callbacks sets when
\* every stage is called: for the dates step0 finds missing and the nights
\* step3 adds
StageMsgs(missing, new_nights) ==
    <<<<"Completed steps:", 0>>,
      step0_msg(missing),
      <<"Logged in to connect.garmin.com", 0>>,
      <<"Downloaded new data from Garmin", 0>>,
      <<"night(s) were added to the sleep dataset", new_nights>>,
      <<"Updated sunrise/sunset dataset", 0>>,
      <<"Finished syncing", 0>> >>

\* how many of the callbacks of the chain have returned in this run
Returned ==
    CASE pc = "done" -> 7
      [] \E i \in DOMAIN written : written[i] = "sun_df" -> 6
      [] \E i \in DOMAIN written : written[i] = "all_sleep_event_df" -> 5
      [] \E i \in DOMAIN written : written[i] = "new_garmin_sleep_json" -> 4
      [] request.status_code # 0 -> 3
      [] pc # "step0" -> 2
      [] OTHER -> 0

\* the children of sync-step-0 .. sync-step-6 as the modal shows them
ModalMsgs ==
    [k \in 1..7 |->
        IF k <= Returned
        THEN StageMsgs(new_req_dates_ls,
                       Len(disk.all_sleep_descr_df) - Len(before.all_sleep_descr_df))[k]
        ELSE NoneMsg]

\* what the stages would return if they were called now
FreshMsgs == StageMsgs(step0_new_req_dates_ls(disk.garmin_sleep_df), 0)

do_sync_stepUnguarded(msg, sync_already_finished, out_msg, stage_msg) ==
    IF msg # NoneMsg THEN stage_msg ELSE msg

\* do_sync_step0 .. do_sync_step4: the message the callback returns
do_sync_step(msg, sync_already_finished, out_msg, stage_msg) ==
    IF sync_already_finished THEN out_msg
    ELSE IF msg # NoneMsg THEN stage_msg ELSE msg

\* do_sync_step0 .. do_sync_step4: the callback calls its stage
do_sync_calls(msg, sync_already_finished) ==
    ~sync_already_finished /\ msg # NoneMsg

\* the last callback: the message of sync-step-6
do_sync_last(msg, sync_already_finished, out_msg) ==
    IF ~sync_already_finished /\ msg # NoneMsg THEN <<"Finished syncing", 0>>
    ELSE out_msg

\* the children of sync-step-0 .. sync-step-6 after a click on a Sync Data
\* button: sync_data, then each callback on the output of the one before
click_modal(shown, finished, fresh) ==
    LET m0 == <<sync_data(finished), 0>>
        m1 == do_sync_step(m0, finished, shown[2], fresh[2])
        m2 == do_sync_step(m1, finished, shown[3], fresh[3])
        m3 == do_sync_step(m2, finished, shown[4], fresh[4])
        m4 == do_sync_step(m3, finished, shown[5], fresh[5])
        m5 == do_sync_step(m4, finished, shown[6], fresh[6])
    IN  <<m0, m1, m2, m3, m4, m5, do_sync_last(m5, finished, shown[7])>>

\* the stages the callbacks call after a click: stage k is called by the
\* callback whose input is sync-step-k
click_calls(shown, finished, fresh) ==
    {k \in 0..4 :
        do_sync_calls(IF k = 0 THEN <<sync_data(finished), 0>>
                      ELSE click_modal(shown, finished, fresh)[k],
                      finished)}

\* a click on a Sync Data button once a run of this session is under way or
\* has finished: step0 runs again when do_sync_step0 calls it.  The later
\* callbacks of a second chain are left out
SessionClick ==
    /\ InFlight \/ sync_finished
    /\ IF 0 \in click_calls(ModalMsgs, sync_finished, FreshMsgs)
       THEN /\ nights_df' = disk.garmin_sleep_df
            /\ new_req_dates_ls' = step0_new_req_dates_ls(disk.garmin_sleep_df)
       ELSE UNCHANGED <<nights_df, new_req_dates_ls>>
    /\ UNCHANGED <<env, disk, request, data_json, complete_dates_ls, get_dates_ls,
                   data, periods, sun_requests, pc, run, written, before, first>>

NextSession ==
    \/ Step0
    \/ Step1
    \/ Step2Start
    \/ Step2Request
    \/ Step2Finish
    \/ Step3
    \/ Step4
    \/ SessionClick

\* one session of the app: a sync run and clicks on the Sync Data buttons
SpecSession == Init /\ [][NextSession]_vars

\* C30 as stated: once a run has finished, a click calls no stage and leaves
\* every message of the modal, sync-step-0 .. sync-step-6, as the run left it
C30_ModalKeepsEveryMessage ==
    sync_finished =>
        /\ click_calls(ModalMsgs, sync_finished, FreshMsgs) = {}
        /\ click_modal(ModalMsgs, sync_finished, FreshMsgs) = ModalMsgs

\* C30, amended: once a run has finished, a click calls no stage and leaves the
\* messages of the stages and of the end, sync-step-1 .. sync-step-6, as the
\* run left them; the heading in sync-step-0 is cleared
C30_ClickAfterFinish ==
    sync_finished =>
        /\ click_calls(ModalMsgs, sync_finished, FreshMsgs) = {}
        /\ \A k \in 2..7 :
              /\ click_modal(ModalMsgs, sync_finished, FreshMsgs)[k] = ModalMsgs[k]
              /\ ModalMsgs[k] # NoneMsg
        /\ click_modal(ModalMsgs, sync_finished, FreshMsgs)[1] = NoneMsg

\* a run has finished that added nights and changed the archive, so that a
\* stage called again would be seen
C30_Witness ==
    /\ sync_finished
    /\ ModalMsgs[5][2] > 0
    /\ disk.garmin_sleep_df # nights_df
    /\ FreshMsgs[2] # ModalMsgs[2]

=============================================================================
